---- MODULE Spec2Model ----
(***************************************************************************)
(* Inventory-System: the stock ledger kept by Inventory_Manager.py (add,   *)
(* edit, delete) and pages/Sell_Product.py (sale, return).                 *)
(*                                                                         *)
(* A text value is a sequence of one-character strings; "NBSP" and "ZWSP"  *)
(* stand for the characters U+00A0 and U+200B.  A table is the sequence of *)
(* its rows in file order; a row keeps the columns the ledger reads:       *)
(* BARCODE, FRAMENUM and QUANTITY.  The specification's single Inventory   *)
(* table and single Archive table are the variables inventory and archive: *)
(* both pages' load/save functions read and write them.                    *)
(*                                                                         *)
(* Every handler runs inside one Streamlit rerun: the script reloads the   *)
(* files, the handler checks, mutates and saves.  One action is one such   *)
(* rerun; message is what the rerun reports with st.success, st.warning or *)
(* st.error.                                                               *)
(*                                                                         *)
(* Outside the model: cells that are empty or hold only whitespace (pandas *)
(* reads them back as NaN), signs and exponents in numeric text, the price *)
(* and descriptive columns, and a file write that itself is cut short.     *)
(*                                                                         *)
(* Spec runs every handler of both pages; SpecStock follows the stock of   *)
(* the products through add, quantity edit, sale and return with a longer  *)
(* sales log; SpecManager runs the manager page alone with every text      *)
(* field typed freely.  SpecRestore, SpecItems and SpecDelete follow      *)
(* single products through sell-out, re-add, return, rename and delete;    *)
(* SpecRace splits the add rerun of two sessions into its load and its     *)
(* check-and-save, which nothing in the code keeps together; SpecLost does *)
(* the same with the sell page, and SpecWrites takes the four file writes  *)
(* of one transaction one at a time.  SpecCodes and SpecDraw run the two   *)
(* code generators, SpecCount the stock count, SpecClean the add form with *)
(* barcodes of every shape.                                                *)
(***************************************************************************)
EXTENDS Integers, Sequences, FiniteSets, TLC

\* ------------------------------------------------------------------ bounds
\* rows the add form may build up in the inventory table
MaxRows == 2
\* largest quantity typed into a QUANTITY field
MaxQty == 2
\* records the sales log may hold in Spec
MaxLog == 1
\* largest quantity typed in SpecStock
MaxStockQty == 3
\* records the sales log may hold in SpecStock
MaxStockLog == 2
\* size of the range random.randint draws barcodes from (11000 in the code)
BarcodeRange == 2
\* records the sales log may hold in SpecRestore
MaxRestoreLog == 3

\* number_input(..., max_value=max(... 9999, 1)) for an archived product
ARCHIVED_MAX_QTY == 9999

\* ------------------------------------------------------------------ text
Digits == {"0", "1", "2", "3", "4", "5", "6", "7", "8", "9"}

\* characters str.strip() removes (U+00A0 is whitespace, U+200B is not)
Whitespace == {" ", "NBSP"}

DigitVal(c) ==
    CASE c = "0" -> 0 [] c = "1" -> 1 [] c = "2" -> 2 [] c = "3" -> 3
      [] c = "4" -> 4 [] c = "5" -> 5 [] c = "6" -> 6 [] c = "7" -> 7
      [] c = "8" -> 8 [] c = "9" -> 9

DigitChar(n) ==
    CASE n = 0 -> "0" [] n = 1 -> "1" [] n = 2 -> "2" [] n = 3 -> "3"
      [] n = 4 -> "4" [] n = 5 -> "5" [] n = 6 -> "6" [] n = 7 -> "7"
      [] n = 8 -> "8" [] n = 9 -> "9"

RECURSIVE LStrip(_)
LStrip(s) ==
    IF s # <<>> /\ Head(s) \in Whitespace THEN LStrip(Tail(s)) ELSE s

RECURSIVE RStrip(_)
RStrip(s) ==
    IF s # <<>> /\ s[Len(s)] \in Whitespace
    THEN RStrip(SubSeq(s, 1, Len(s) - 1))
    ELSE s

\* str.strip()
Strip(s) == RStrip(LStrip(s))

\* .replace(U+200B, '').replace(U+00A0, '')
RemoveInvisible(s) == SelectSeq(s, LAMBDA c : c \notin {"ZWSP", "NBSP"})

\* position of the first "." of s, 0 when there is none
RECURSIVE DotPos(_, _)
DotPos(s, i) ==
    IF i > Len(s) THEN 0 ELSE IF s[i] = "." THEN i ELSE DotPos(s, i + 1)

AllDigits(s) == \A i \in 1..Len(s) : s[i] \in Digits

\* float(s) succeeds: optional surrounding whitespace, digits with at most
\* one "." and at least one digit (signs, exponents, "inf", "nan" and "_"
\* are outside the modelled alphabet)
IsFloat(s) ==
    LET t == Strip(s)
        d == DotPos(t, 1)
        ip == IF d = 0 THEN t ELSE SubSeq(t, 1, d - 1)
        fp == IF d = 0 THEN <<>> ELSE SubSeq(t, d + 1, Len(t))
    IN  /\ AllDigits(ip)
        /\ AllDigits(fp)
        /\ Len(ip) + Len(fp) > 0

RECURSIVE DigitsValue(_)
DigitsValue(s) ==
    IF s = <<>> THEN 0
    ELSE 10 * DigitsValue(SubSeq(s, 1, Len(s) - 1)) + DigitVal(s[Len(s)])

\* str(n) for n >= 0
RECURSIVE IntToStr(_)
IntToStr(n) ==
    IF n < 10 THEN <<DigitChar(n)>>
    ELSE Append(IntToStr(n \div 10), DigitChar(n % 10))

\* integer part of float(s)
FloatIntPart(s) ==
    LET t == Strip(s)
        d == DotPos(t, 1)
    IN  DigitsValue(IF d = 0 THEN t ELSE SubSeq(t, 1, d - 1))

\* fractional digits of float(s)
FloatFracDigits(s) ==
    LET t == Strip(s)
        d == DotPos(t, 1)
    IN  IF d = 0 THEN <<>> ELSE SubSeq(t, d + 1, Len(t))

\* f.is_integer()
IsInteger(s) == \A i \in 1..Len(FloatFracDigits(s)) : FloatFracDigits(s)[i] = "0"

\* 1 when the fraction is above one half, 0 when it is exactly one half,
\* -1 when it is below
HalfCompare(fp) ==
    IF fp = <<>> THEN -1
    ELSE IF DigitVal(fp[1]) > 5 THEN 1
    ELSE IF DigitVal(fp[1]) < 5 THEN -1
    ELSE IF \E i \in 2..Len(fp) : fp[i] # "0" THEN 1
    ELSE 0

\* int(round(f)): Python 3 rounds halves to the even neighbour
RoundFloat(s) ==
    LET n == FloatIntPart(s)
        h == HalfCompare(FloatFracDigits(s))
    IN  IF h = 1 THEN n + 1
        ELSE IF h = -1 THEN n
        ELSE IF n % 2 = 0 THEN n ELSE n + 1

\* Inventory_Manager.clean_barcode
clean_barcode(val) ==
    LET s == RemoveInvisible(Strip(val))
    IN  IF IsFloat(s)
        THEN IF IsInteger(s) THEN IntToStr(FloatIntPart(s))
             ELSE IntToStr(RoundFloat(s))
        ELSE s

EndsWithDotZero(s) == Len(s) >= 2 /\ s[Len(s) - 1] = "." /\ s[Len(s)] = "0"

\* Sell_Product.clean_barcode
sell_clean_barcode(val) ==
    LET s == RemoveInvisible(Strip(val))
    IN  IF EndsWithDotZero(s) THEN SubSeq(s, 1, Len(s) - 2) ELSE s

\* Stocktake.clean_barcode: int(f) cuts the fraction off
stocktake_clean_barcode(val) ==
    IF val = <<>> THEN <<>>
    ELSE LET s == RemoveInvisible(Strip(val))
         IN  IF IsFloat(s) THEN IntToStr(FloatIntPart(s)) ELSE s

\* ------------------------------------------------------------------ inputs
\* what the user types into the BARCODE fields of both pages
BarcodeInputs == { <<>>, <<"1">>, <<"1", ".", "0">>, <<"2">> }

\* what the user types into the FRAME NUMBER field
FrameInputs == { <<>>, <<"A">>, <<"B">> }

\* the wider choice of the manager page on its own
ManagerBarcodeInputs == BarcodeInputs \cup { <<"2", ".", "5">> }
ManagerFrameInputs == FrameInputs \cup { <<"A", " ">> }

\* frame numbers already typed into the FRAME NUMBER field of stored rows:
\* ACM000007, ACM000007X, ACM0000071, ACM999999, ACM1000000, ACM00007 and
\* BCD000003
FrameCodeInputs ==
    { <<"A", "C", "M", "0", "0", "0", "0", "0", "7">>,
      <<"A", "C", "M", "0", "0", "0", "0", "0", "7", "X">>,
      <<"A", "C", "M", "0", "0", "0", "0", "0", "7", "1">>,
      <<"A", "C", "M", "9", "9", "9", "9", "9", "9">>,
      <<"A", "C", "M", "1", "0", "0", "0", "0", "0", "0">>,
      <<"A", "C", "M", "0", "0", "0", "0", "7">>,
      <<"B", "C", "D", "0", "0", "0", "0", "0", "3">> }

\* supplier names typed for "Generate Framecode": Acme, acme and Bcd
SupplierInputs ==
    { <<"A", "c", "m", "e">>, <<"a", "c", "m", "e">>, <<"B", "c", "d">> }

\* the barcodes of the range the generator draws from, as typed text
RangeBarcodes == { IntToStr(n) : n \in 1..BarcodeRange }

\* barcodes of an uploaded stock count: 1, 1.0, 1.5, 2, 2.5, 123, 123.0, 123.5
ScanInputs ==
    { <<"1">>,
      <<"1", ".", "0">>,
      <<"1", ".", "5">>,
      <<"2">>,
      <<"2", ".", "5">>,
      <<"1", "2", "3">>,
      <<"1", "2", "3", ".", "0">>,
      <<"1", "2", "3", ".", "5">> }

\* barcodes typed or pasted with decimals, blanks around them and invisible
\* characters in them
CleanInputs ==
    { <<"1", "2", "3">>, <<"1", "2", "3", ".", "0">>, <<"1", "2", "3", ".", "5">>,
      <<" ", "1", " ">>, <<"A">>, <<"A", "NBSP">>, <<"ZWSP", " ", "A">>,
      <<"A", "ZWSP", "B">> }

\* number_input("QUANTITY", min_value=0, ...)
QuantityInputs == 0..MaxQty
StockQuantityInputs == 0..MaxStockQty

\* every text value a cell or a field can hold under these inputs
TypedTexts ==
    ManagerBarcodeInputs \cup ManagerFrameInputs \cup FrameCodeInputs
        \cup RangeBarcodes \cup ScanInputs \cup CleanInputs
CleanedTexts ==
    TypedTexts \cup {clean_barcode(v) : v \in TypedTexts}
               \cup {sell_clean_barcode(v) : v \in TypedTexts}
               \cup {stocktake_clean_barcode(v) : v \in TypedTexts}
Texts ==
    CleanedTexts \cup {clean_barcode(v) : v \in CleanedTexts}
                 \cup {sell_clean_barcode(v) : v \in CleanedTexts}
                 \cup {stocktake_clean_barcode(v) : v \in CleanedTexts}

\* Inventory_Manager.clean_barcode and Sell_Product.clean_barcode, tabulated
\* over Texts
manager_clean == [v \in Texts |-> clean_barcode(v)]
sell_clean == [v \in Texts |-> sell_clean_barcode(v)]
stocktake_clean == [v \in Texts |-> stocktake_clean_barcode(v)]

\* the frame number typed with a barcode where frame numbers play no part
FrameFor(barcode) == IF manager_clean[barcode] = <<"1">> THEN <<"A">> ELSE <<"B">>

\* inventory, archive, sales, audit: the four spreadsheet files
\* pending_delete_index, message: session state and report of the last rerun
\* requested_row: the row the selectbox showed when "Delete Product" was
\*           pressed, remembered where a specification follows it
\* sessions: the script runs of browser sessions that are between reading
\*           the inventory file and writing it
VARIABLES inventory, archive, sales, audit, pending_delete_index, message,
          requested_row, sessions

vars ==
    <<inventory, archive, sales, audit, pending_delete_index, message,
      requested_row, sessions>>

\* the browser sessions that run the manager page side by side
Sessions == {1, 2}

\* no row is awaiting confirmation
NoRow == [BARCODE |-> <<>>, FRAMENUM |-> <<>>, QUANTITY |-> 0]

\* a session whose script is not running
Idle == [pc |-> "idle", df |-> <<>>, row |-> NoRow]

\* session_state["pending_delete_index"] is None
None == 0

Init ==
    /\ inventory = <<>>
    /\ archive = <<>>
    /\ sales = <<>>
    /\ audit = <<>>
    /\ pending_delete_index = None
    /\ message = "none"
    /\ requested_row = NoRow
    /\ sessions = [s \in Sessions |-> Idle]

\* ------------------------------------------------------------------ manager
\* Inventory_Manager.load_inventory: every BARCODE cell is canonicalized
load_inventory(file) ==
    [i \in 1..Len(file) |-> [file[i] EXCEPT !.BARCODE = manager_clean[@]]]

\* the normalisation every handler of the manager runs before to_excel
normalize_for_save(df) ==
    [i \in 1..Len(df) |-> [df[i] EXCEPT !.BARCODE = manager_clean[@]]]

\* missing = [field for field in required_fields if not input_values.get(field)]
MissingRequired(barcode, framenum) == barcode = <<>> \/ framenum = <<>>

\* a comparison of the typed barcode with the stored cells as they are
BarcodeExists_uncleaned(df, barcode) ==
    \E i \in 1..Len(df) : df[i].BARCODE = barcode

\* barcode_cleaned in df_barcodes_cleaned.values
BarcodeExists(df, barcode) ==
    \E i \in 1..Len(df) : manager_clean[df[i].BARCODE] = manager_clean[barcode]

\* a handler that never looks for the frame code
FramecodeExists_unchecked(df, framenum) == FALSE

\* framecode_cleaned in df_framecodes_cleaned.values
FramecodeExists(df, framenum) ==
    \E i \in 1..Len(df) : manager_clean[df[i].FRAMENUM] = manager_clean[framenum]

new_row(barcode, framenum, quantity) ==
    [BARCODE |-> manager_clean[barcode], FRAMENUM |-> framenum, QUANTITY |-> quantity]

\* pd.concat([df, pd.DataFrame([new_row])], ignore_index=True)
concat_row(df, row) == Append(df, row)

\* "Add Product" submitted with the values of the add form
AddProduct(barcode, framenum, quantity) ==
    LET df == load_inventory(inventory)
    IN  /\ IF MissingRequired(barcode, framenum)
           THEN /\ message' = "required"
                /\ UNCHANGED inventory
           ELSE IF BarcodeExists(df, barcode)
           THEN /\ message' = "barcode exists"
                /\ UNCHANGED inventory
           ELSE IF FramecodeExists(df, framenum)
           THEN /\ message' = "framecode exists"
                /\ UNCHANGED inventory
           ELSE /\ inventory' =
                       normalize_for_save(
                           concat_row(df, new_row(barcode, framenum, quantity)))
                /\ message' = "added"
        /\ UNCHANGED <<archive, sales, audit, pending_delete_index, requested_row,
                       sessions>>

\* df.at[selected_row, h] = val for every edited column
edited_row(barcode, framenum, quantity) ==
    [BARCODE |-> manager_clean[barcode], FRAMENUM |-> framenum, QUANTITY |-> quantity]

\* "Save Changes" submitted for the selected row
EditProduct(selected_row, barcode, framenum, quantity) ==
    LET df == load_inventory(inventory)
    IN  /\ selected_row \in 1..Len(df)
        /\ inventory' =
               normalize_for_save(
                   [df EXCEPT ![selected_row] = edited_row(barcode, framenum, quantity)])
        /\ message' = "updated"
        /\ UNCHANGED <<archive, sales, audit, pending_delete_index, requested_row,
                       sessions>>

\* two browser sessions: the rerun that "Add Product" starts reads the file
\* (df = load_inventory()) and the widget values; nothing is locked
SessionLoad(s, barcode, framenum, quantity) ==
    /\ sessions[s].pc # "loaded"
    /\ sessions' = [sessions EXCEPT ![s] =
                        [pc |-> "loaded", df |-> load_inventory(inventory),
                         row |-> [BARCODE |-> barcode, FRAMENUM |-> framenum,
                                  QUANTITY |-> quantity]]]
    /\ UNCHANGED <<inventory, archive, sales, audit, pending_delete_index,
                   message, requested_row>>

\* the message of the add handler's checks, "" when they all pass
add_refusal(df, row) ==
    IF MissingRequired(row.BARCODE, row.FRAMENUM) THEN "required"
    ELSE IF BarcodeExists(df, row.BARCODE) THEN "barcode exists"
    ELSE IF FramecodeExists(df, row.FRAMENUM) THEN "framecode exists"
    ELSE ""

\* the file the add handler writes from its own copy
added_table(df, row) ==
    normalize_for_save(
        concat_row(df, new_row(row.BARCODE, row.FRAMENUM, row.QUANTITY)))

\* the same rerun reaches the add handler: it checks and saves the copy it read
SessionSubmit(s) ==
    LET df == sessions[s].df
        row == sessions[s].row
    IN  /\ sessions[s].pc = "loaded"
        /\ IF add_refusal(df, row) # ""
           THEN /\ message' = add_refusal(df, row)
                /\ sessions' = [sessions EXCEPT ![s].pc = "refused"]
                /\ UNCHANGED inventory
           ELSE /\ message' = "added"
                /\ sessions' = [sessions EXCEPT ![s].pc = "added"]
                /\ inventory' = added_table(df, row)
        /\ UNCHANGED <<archive, sales, audit, pending_delete_index, requested_row>>

\* ---- code generators
FRAMECODE_DIGITS == 6

\* str.upper() on the letters of the supplier names
UpperChar(c) ==
    CASE c = "a" -> "A" [] c = "b" -> "B" [] c = "c" -> "C" [] c = "d" -> "D"
      [] c = "e" -> "E" [] c = "m" -> "M" [] OTHER -> c

\* supplier[:3].upper()
framecode_prefix(supplier) ==
    [i \in 1..(IF Len(supplier) < 3 THEN Len(supplier) ELSE 3) |->
        UpperChar(supplier[i])]

\* str.startswith(prefix)
StartsWith(s, prefix) ==
    Len(s) >= Len(prefix) /\ SubSeq(s, 1, Len(prefix)) = prefix

\* re.search(r'(\d{6})', s): the first run of six digits from position i on,
\* <<>> (NaN) when there is none
RECURSIVE extract_digits(_, _)
extract_digits(s, i) ==
    IF i + FRAMECODE_DIGITS - 1 > Len(s) THEN <<>>
    ELSE IF AllDigits(SubSeq(s, i, i + FRAMECODE_DIGITS - 1))
    THEN SubSeq(s, i, i + FRAMECODE_DIGITS - 1)
    ELSE extract_digits(s, i + 1)

\* matching.str[len(prefix):].str.extract(r'(\d{6})')[0].dropna(), as numbers
framecode_nums(prefix, df) ==
    { DigitsValue(extract_digits(df[i].FRAMENUM, Len(prefix) + 1)) :
        i \in { k \in 1..Len(df) :
                  /\ StartsWith(df[k].FRAMENUM, prefix)
                  /\ extract_digits(df[k].FRAMENUM, Len(prefix) + 1) # <<>> } }

\* nums.max(): of strings of six digits, so the largest number
max_num(nums) == CHOOSE n \in nums : \A m \in nums : m <= n

\* f"{next_num:06d}"
RECURSIVE zero_padded(_)
zero_padded(digits) ==
    IF Len(digits) >= FRAMECODE_DIGITS THEN digits
    ELSE zero_padded(<<"0">> \o digits)

\* Inventory_Manager.generate_framecode
generate_framecode(supplier, df) ==
    framecode_prefix(supplier) \o
        zero_padded(IntToStr(
            IF framecode_nums(framecode_prefix(supplier), df) # {}
            THEN max_num(framecode_nums(framecode_prefix(supplier), df)) + 1
            ELSE 1))

\* "Generate Framecode" clicked with a supplier name typed
GenerateFramecode(s, supplier) ==
    /\ supplier # <<>>
    /\ sessions' = [sessions EXCEPT ![s] =
                        [pc |-> "framecode", df |-> load_inventory(inventory),
                         row |-> [NoRow EXCEPT !.FRAMENUM =
                                     generate_framecode(supplier,
                                                        load_inventory(inventory))],
                         supplier |-> supplier]]
    /\ UNCHANGED <<inventory, archive, sales, audit, pending_delete_index,
                   message, requested_row>>

\* a generator that takes every draw
barcode_taken_never(df, barcode_val_clean) == FALSE

\* barcode_val_clean in df["BARCODE"].map(clean_barcode).values
barcode_taken(df, barcode_val_clean) ==
    \E i \in 1..Len(df) : manager_clean[df[i].BARCODE] = barcode_val_clean

\* "Generate Barcode" clicked: generate_unique_barcode(df) is entered
GenerateBarcode(s) ==
    /\ sessions[s].pc # "drawing"
    /\ sessions' = [sessions EXCEPT ![s] =
                        [pc |-> "drawing", df |-> load_inventory(inventory),
                         row |-> NoRow, draws |-> 0]]
    /\ UNCHANGED <<inventory, archive, sales, audit, pending_delete_index,
                   message, requested_row>>

\* one turn of "while True": random.randint drew value
Draw(s, value) ==
    /\ sessions[s].pc = "drawing"
    /\ IF barcode_taken(sessions[s].df, manager_clean[IntToStr(value)])
       THEN sessions' = [sessions EXCEPT ![s].draws = 1 - @]
       ELSE sessions' = [sessions EXCEPT
                            ![s].pc = "barcode",
                            ![s].row = [NoRow EXCEPT !.BARCODE =
                                           manager_clean[IntToStr(value)]]]
    /\ UNCHANGED <<inventory, archive, sales, audit, pending_delete_index,
                   message, requested_row>>

\* a turn whose draw is a barcode no row holds
DrawUnused(s) ==
    \E value \in 1..BarcodeRange : Draw(s, value) /\ sessions'[s].pc = "barcode"

\* ---- stock count
\* the clean_barcode of the page the stock count runs on
page_clean(page) == IF page = "Stocktake" THEN stocktake_clean ELSE manager_clean

\* a reconciliation that reports every recorded barcode as missing
reconcile_all_missing(clean, df, scanned) ==
    LET inventory_barcodes == { clean[df[i].BARCODE] : i \in 1..Len(df) }
        scanned_barcodes == { clean[v] : v \in scanned }
    IN  [matched |-> inventory_barcodes \cap scanned_barcodes,
         missing |-> inventory_barcodes,
         unexpected |-> scanned_barcodes \ inventory_barcodes]

\* inventory_barcodes & scanned_barcodes, inventory_barcodes - scanned_barcodes,
\* scanned_barcodes - inventory_barcodes
reconcile(clean, df, scanned) ==
    LET inventory_barcodes == { clean[df[i].BARCODE] : i \in 1..Len(df) }
        scanned_barcodes == { clean[v] : v \in scanned }
    IN  [matched |-> inventory_barcodes \cap scanned_barcodes,
         missing |-> inventory_barcodes \ scanned_barcodes,
         unexpected |-> scanned_barcodes \ inventory_barcodes]

\* the tables as the page's own load_inventory hands them over
page_inventory(page, file) == IF page = "Stocktake" THEN file ELSE load_inventory(file)

\* a file of scanned barcodes is uploaded on the Stocktake page or in the
\* Stock Count expander of the manager
Reconcile(s, page, scanned) ==
    /\ sessions' = [sessions EXCEPT ![s] =
                        [pc |-> "counted", df |-> page_inventory(page, inventory),
                         row |-> NoRow, page |-> page, scanned |-> scanned,
                         result |-> reconcile(page_clean(page),
                                              page_inventory(page, inventory),
                                              scanned)]]
    /\ UNCHANGED <<inventory, archive, sales, audit, pending_delete_index,
                   message, requested_row>>

\* "Delete Product" submitted for the selected row
RequestDelete(selected_row) ==
    /\ selected_row \in 1..Len(load_inventory(inventory))
    /\ pending_delete_index' = selected_row
    /\ message' = "confirm delete"
    /\ UNCHANGED <<inventory, archive, sales, audit, sessions>>

\* df.at[pending_delete_index, ...] of the confirmation prompt raises KeyError
\* when the index is no row of the table loaded in this rerun
PromptRenders(df) ==
    pending_delete_index # None /\ pending_delete_index \in 1..Len(df)

\* df.drop(i).reset_index(drop=True)
drop_row(df, i) == [k \in 1..(Len(df) - 1) |-> IF k < i THEN df[k] ELSE df[k + 1]]

\* "Confirm Delete" clicked
ConfirmDelete ==
    LET df == load_inventory(inventory)
    IN  /\ PromptRenders(df)
        /\ inventory' = normalize_for_save(drop_row(df, pending_delete_index))
        /\ pending_delete_index' = None
        /\ requested_row' = NoRow
        /\ message' = "deleted"
        /\ UNCHANGED <<archive, sales, audit, sessions>>

\* "Cancel" clicked
CancelDelete ==
    /\ PromptRenders(load_inventory(inventory))
    /\ pending_delete_index' = None
    /\ requested_row' = NoRow
    /\ message' = "none"
    /\ UNCHANGED <<inventory, archive, sales, audit, sessions>>

\* ------------------------------------------------------------------ sell page
\* df[df["BARCODE_CLEAN"] == barcode_input]
matching_rows(df, barcode_input) ==
    SelectSeq(df, LAMBDA r : sell_clean[r.BARCODE] = barcode_input)

\* df[df["BARCODE_CLEAN"] != barcode_input]
other_rows(df, barcode_input) ==
    SelectSeq(df, LAMBDA r : sell_clean[r.BARCODE] # barcode_input)

\* active inventory first, then the archive
product_source(df, archive_df, barcode_input) ==
    IF matching_rows(df, barcode_input) = <<>> /\ archive_df # <<>>
    THEN "Archive"
    ELSE "Inventory"

product_row(df, archive_df, barcode_input) ==
    IF product_source(df, archive_df, barcode_input) = "Archive"
    THEN matching_rows(archive_df, barcode_input)
    ELSE matching_rows(df, barcode_input)

\* int(product.get("QUANTITY", 0)) if product_source == "Inventory" else 0
qty_before(source, product) ==
    IF source = "Inventory" THEN product.QUANTITY ELSE 0

Max(a, b) == IF a >= b THEN a ELSE b

\* max_value of the "Quantity to Sell/Return" number_input (min_value is 1)
qty_max_value(source, before) ==
    Max(IF source = "Inventory" THEN before ELSE ARCHIVED_MAX_QTY, 1)

\* sales_df[(BARCODE == barcode_input) & (Type == type)]["Quantity"].sum()
RECURSIVE total_quantity(_, _, _)
total_quantity(sales_df, barcode_input, type) ==
    IF sales_df = <<>> THEN 0
    ELSE (IF Head(sales_df).BARCODE = barcode_input /\ Head(sales_df).Type = type
          THEN Head(sales_df).Quantity ELSE 0)
         + total_quantity(Tail(sales_df), barcode_input, type)

net_sold(sales_df, barcode_input) ==
    total_quantity(sales_df, barcode_input, "Sale")
        - total_quantity(sales_df, barcode_input, "Return")

\* a page that never refuses a sale, and one that refuses it one unit late
NotEnoughStock_never(qty) == FALSE
NotEnoughStock_late(qty) == qty < -1

\* if new_qty < 0: "Not enough stock!"
NotEnoughStock(qty) == qty < 0

\* a return check that lets one unit more come back than was sold
OverReturn_late(qty_to_sell, sold) == qty_to_sell > sold + 1

\* if qty_to_sell > net_sold: "Cannot return ..."
OverReturn(qty_to_sell, sold) == qty_to_sell > sold

\* df.loc[df["BARCODE_CLEAN"] == barcode_input, "QUANTITY"] = new_qty
set_quantity(df, barcode_input, qty) ==
    [i \in 1..Len(df) |->
        IF sell_clean[df[i].BARCODE] = barcode_input
        THEN [df[i] EXCEPT !.QUANTITY = qty]
        ELSE df[i]]

\* df.loc[df["BARCODE_CLEAN"] == barcode_input, "QUANTITY"] += qty
add_quantity(df, barcode_input, qty) ==
    [i \in 1..Len(df) |->
        IF sell_clean[df[i].BARCODE] = barcode_input
        THEN [df[i] EXCEPT !.QUANTITY = @ + qty]
        ELSE df[i]]

\* a page that drops a sold-out row instead of archiving it
sale_tables_dropping(df, archive_df, barcode_input, qty) ==
    LET updated == set_quantity(df, barcode_input, qty)
    IN  IF qty = 0
        THEN [inventory |-> other_rows(updated, barcode_input),
              archive |-> archive_df]
        ELSE [inventory |-> updated, archive |-> archive_df]

\* the inventory and archive tables a successful Sale saves
sale_tables(df, archive_df, barcode_input, qty) ==
    LET updated == set_quantity(df, barcode_input, qty)
    IN  IF qty = 0
        THEN [inventory |-> other_rows(updated, barcode_input),
              archive |-> archive_df \o matching_rows(updated, barcode_input)]
        ELSE [inventory |-> updated, archive |-> archive_df]

\* the inventory and archive tables a successful Return saves
return_tables(df, archive_df, barcode_input, source, before, qty_to_sell) ==
    IF source = "Inventory"
    THEN [inventory |-> set_quantity(df, barcode_input, before + qty_to_sell),
          archive |-> archive_df]
    ELSE IF matching_rows(df, barcode_input) # <<>>
    THEN [inventory |-> add_quantity(df, barcode_input, qty_to_sell),
          archive |-> other_rows(archive_df, barcode_input)]
    ELSE [inventory |->
              df \o set_quantity(matching_rows(archive_df, barcode_input),
                                 barcode_input, qty_to_sell),
          archive |-> other_rows(archive_df, barcode_input)]

\* a page that records every transaction as if it were a sale
new_qty_subtracted(source, before, qty_to_sell, sale_type) == before - qty_to_sell

\* new_qty as the audit row records it
new_qty(source, before, qty_to_sell, sale_type) ==
    IF sale_type = "Sale" THEN before - qty_to_sell
    ELSE IF source = "Inventory" THEN before + qty_to_sell
    ELSE qty_to_sell

sale_row(barcode_input, qty_to_sell, sale_type) ==
    [BARCODE |-> barcode_input, Quantity |-> qty_to_sell, Type |-> sale_type]

audit_row(barcode_input, qty_to_sell, sale_type, source, before, after) ==
    [BARCODE |-> barcode_input, Action |-> sale_type, Quantity |-> qty_to_sell,
     Details |-> source, QtyBefore |-> before, QtyAfter |-> after]

\* a page that saves a sales log holding the new row only
log_sale_overwritten(sales_df, row) == <<row>>

\* sales_df = pd.concat([sales_df, pd.DataFrame([sale_row])]); save_sales(sales_df)
log_sale(sales_df, row) == Append(sales_df, row)

\* a page that saves the audit log without the new row
log_audit_dropped(audit_df, row) == audit_df

\* audit_df = pd.concat([audit_df, pd.DataFrame([audit_row])]); save_audit(audit_df)
log_audit(audit_df, row) == Append(audit_df, row)

\* a page that checks sales only, and one that lets archived products be sold
rejection_returns_unchecked(source, before, sold, qty_to_sell, sale_type) ==
    IF sale_type = "Sale"
    THEN IF source = "Inventory"
         THEN IF before - qty_to_sell < 0 THEN "not enough stock" ELSE ""
         ELSE "cannot sell archived"
    ELSE ""
rejection_archived_sold(source, before, sold, qty_to_sell, sale_type) ==
    IF sale_type = "Sale"
    THEN IF source = "Inventory" /\ before - qty_to_sell < 0
         THEN "not enough stock"
         ELSE ""
    ELSE IF qty_to_sell > sold THEN "cannot return" ELSE ""

\* the reason "Process Transaction" stops before any change, "" when none
rejection(source, before, sold, qty_to_sell, sale_type) ==
    IF sale_type = "Sale"
    THEN IF source = "Inventory"
         THEN IF NotEnoughStock(before - qty_to_sell)
              THEN "not enough stock"
              ELSE ""
         ELSE "cannot sell archived"
    ELSE IF OverReturn(qty_to_sell, sold)
         THEN "cannot return"
         ELSE ""

\* the inventory and archive tables a successful transaction saves
transaction_tables(df, archive_df, barcode_input, source, before, qty_to_sell, sale_type) ==
    IF sale_type = "Sale"
    THEN sale_tables(df, archive_df, barcode_input, before - qty_to_sell)
    ELSE return_tables(df, archive_df, barcode_input, source, before, qty_to_sell)

\* if st.button("Process Transaction"): for the product found in source,
\* holding quantity before
process_transaction(barcode_input, source, before, qty_to_sell, sale_type) ==
    /\ qty_to_sell \in 1..qty_max_value(source, before)
    /\ IF rejection(source, before, net_sold(sales, barcode_input), qty_to_sell,
                    sale_type) # ""
       THEN /\ message' = rejection(source, before, net_sold(sales, barcode_input),
                                    qty_to_sell, sale_type)
            /\ UNCHANGED <<inventory, archive, sales, audit>>
       ELSE /\ inventory' =
                   transaction_tables(inventory, archive, barcode_input, source,
                                      before, qty_to_sell, sale_type).inventory
            /\ archive' =
                   transaction_tables(inventory, archive, barcode_input, source,
                                      before, qty_to_sell, sale_type).archive
            /\ sales' = log_sale(sales, sale_row(barcode_input, qty_to_sell, sale_type))
            /\ audit' = log_audit(audit,
                   audit_row(barcode_input, qty_to_sell, sale_type, source, before,
                             new_qty(source, before, qty_to_sell, sale_type)))
            /\ message' = "processed"
    /\ UNCHANGED <<pending_delete_index, requested_row, sessions>>

\* the product the lookup found is shown and its transaction submitted
product_found(barcode_input, source, qty_to_sell, sale_type) ==
    process_transaction(barcode_input, source,
        qty_before(source, product_row(inventory, archive, barcode_input)[1]),
        qty_to_sell, sale_type)

\* a barcode is entered on the sell page and, when a product is found,
\* "Process Transaction" is clicked
ProcessTransaction(barcode, qty_to_sell, sale_type) ==
    IF product_row(inventory, archive, sell_clean[barcode]) = <<>>
    THEN /\ message' = IF barcode # <<>> THEN "not found" ELSE "none"
         /\ UNCHANGED <<inventory, archive, sales, audit, pending_delete_index,
                        requested_row, sessions>>
    ELSE product_found(sell_clean[barcode],
                       product_source(inventory, archive, sell_clean[barcode]),
                       qty_to_sell, sale_type)

TransactionTypes == {"Sale", "Return"}

\* the sell page in one of two browser sessions: the script run reads the
\* four files at its top (df, archive_df, sales_df, audit_df) and the widgets
SellLoad(s, barcode, qty_to_sell, sale_type) ==
    /\ sessions[s].pc \notin {"loaded", "selling"}
    /\ sessions' = [sessions EXCEPT ![s] =
                        [pc |-> "selling", df |-> inventory,
                         row |-> [BARCODE |-> sell_clean[barcode], FRAMENUM |-> <<>>,
                                  QUANTITY |-> qty_to_sell],
                         archive_df |-> archive, sales_df |-> sales,
                         audit_df |-> audit, sale_type |-> sale_type]]
    /\ UNCHANGED <<inventory, archive, sales, audit, pending_delete_index,
                   message, requested_row>>

\* the log the new sales row is appended to: the copy read at the top of the run
sales_base_reloaded(sales_df, sales_file) == sales_file

sales_base(sales_df, sales_file) == sales_df

\* "Process Transaction" of that run, working on the copies it read
sell_save(s, df, archive_df, sales_df, audit_df, barcode_input, source, before, qty_to_sell, sale_type) ==
    IF rejection(source, before, net_sold(sales_df, barcode_input), qty_to_sell,
                 sale_type) # ""
    THEN /\ message' = rejection(source, before, net_sold(sales_df, barcode_input),
                                 qty_to_sell, sale_type)
         /\ sessions' = [sessions EXCEPT ![s].pc = "rejected"]
         /\ UNCHANGED <<inventory, archive, sales, audit>>
    ELSE /\ inventory' =
                transaction_tables(df, archive_df, barcode_input, source, before,
                                   qty_to_sell, sale_type).inventory
         /\ archive' =
                transaction_tables(df, archive_df, barcode_input, source, before,
                                   qty_to_sell, sale_type).archive
         /\ sales' = log_sale(sales_base(sales_df, sales),
                              sale_row(barcode_input, qty_to_sell, sale_type))
         /\ audit' = log_audit(audit_df,
                audit_row(barcode_input, qty_to_sell, sale_type, source, before,
                          new_qty(source, before, qty_to_sell, sale_type)))
         /\ message' = "processed"
         /\ sessions' = [sessions EXCEPT ![s].pc = "sold"]

\* the product found in the copies, its quantity within the widget's range
sell_found(s, run, source) ==
    /\ run.row.QUANTITY \in
          1..qty_max_value(source,
                qty_before(source,
                    product_row(run.df, run.archive_df, run.row.BARCODE)[1]))
    /\ sell_save(s, run.df, run.archive_df, run.sales_df, run.audit_df,
                 run.row.BARCODE, source,
                 qty_before(source,
                     product_row(run.df, run.archive_df, run.row.BARCODE)[1]),
                 run.row.QUANTITY, run.sale_type)

\* the same run reaches the lookup and the "Process Transaction" handler
SellSubmit(s) ==
    /\ sessions[s].pc = "selling"
    /\ IF product_row(sessions[s].df, sessions[s].archive_df,
                      sessions[s].row.BARCODE) = <<>>
       THEN /\ message' = IF sessions[s].row.BARCODE # <<>> THEN "not found"
                          ELSE "none"
            /\ sessions' = [sessions EXCEPT ![s].pc = "rejected"]
            /\ UNCHANGED <<inventory, archive, sales, audit>>
       ELSE sell_found(s, sessions[s],
                product_source(sessions[s].df, sessions[s].archive_df,
                               sessions[s].row.BARCODE))
    /\ UNCHANGED <<pending_delete_index, requested_row>>

\* ---- "Process Transaction" write by write
\* product_source and qty_before of a script run, from the copies it read
run_source(run) == product_source(run.df, run.archive_df, run.row.BARCODE)
run_before(run) ==
    qty_before(run_source(run),
               product_row(run.df, run.archive_df, run.row.BARCODE)[1])

\* the tables the run saves
run_tables(run) ==
    transaction_tables(run.df, run.archive_df, run.row.BARCODE, run_source(run),
                       run_before(run), run.row.QUANTITY, run.sale_type)

\* the branches that call save_archive after save_inventory
saves_archive(source, before, qty_to_sell, sale_type) ==
    IF sale_type = "Sale" THEN before - qty_to_sell = 0 ELSE source = "Archive"

\* the checks, then save_inventory(df)
write_inventory(s, run, source, before) ==
    /\ run.row.QUANTITY \in 1..qty_max_value(source, before)
    /\ IF rejection(source, before, net_sold(run.sales_df, run.row.BARCODE),
                    run.row.QUANTITY, run.sale_type) # ""
       THEN /\ message' = rejection(source, before,
                                    net_sold(run.sales_df, run.row.BARCODE),
                                    run.row.QUANTITY, run.sale_type)
            /\ sessions' = [sessions EXCEPT ![s].pc = "rejected"]
            /\ UNCHANGED inventory
       ELSE /\ inventory' = run_tables(run).inventory
            /\ sessions' = [sessions EXCEPT ![s].pc =
                                IF saves_archive(source, before, run.row.QUANTITY,
                                                 run.sale_type)
                                THEN "saved inventory"
                                ELSE "saved tables"]
            /\ UNCHANGED message

\* the run reaches the lookup, the checks and its first file write
WriteInventory(s) ==
    /\ sessions[s].pc = "selling"
    /\ IF product_row(sessions[s].df, sessions[s].archive_df,
                      sessions[s].row.BARCODE) = <<>>
       THEN /\ message' = IF sessions[s].row.BARCODE # <<>> THEN "not found"
                          ELSE "none"
            /\ sessions' = [sessions EXCEPT ![s].pc = "rejected"]
            /\ UNCHANGED inventory
       ELSE write_inventory(s, sessions[s], run_source(sessions[s]),
                            run_before(sessions[s]))
    /\ UNCHANGED <<archive, sales, audit, pending_delete_index, requested_row>>

\* save_archive(archive_df)
WriteArchive(s) ==
    /\ sessions[s].pc = "saved inventory"
    /\ archive' = run_tables(sessions[s]).archive
    /\ sessions' = [sessions EXCEPT ![s].pc = "saved tables"]
    /\ UNCHANGED <<inventory, sales, audit, pending_delete_index, message,
                   requested_row>>

\* save_sales(sales_df)
WriteSales(s) ==
    /\ sessions[s].pc = "saved tables"
    /\ sales' = log_sale(sales_base(sessions[s].sales_df, sales),
                         sale_row(sessions[s].row.BARCODE, sessions[s].row.QUANTITY,
                                  sessions[s].sale_type))
    /\ sessions' = [sessions EXCEPT ![s].pc = "saved sales"]
    /\ UNCHANGED <<inventory, archive, audit, pending_delete_index, message,
                   requested_row>>

\* save_audit(audit_df) and st.success
WriteAudit(s) ==
    /\ sessions[s].pc = "saved sales"
    /\ audit' = log_audit(sessions[s].audit_df,
           audit_row(sessions[s].row.BARCODE, sessions[s].row.QUANTITY,
                     sessions[s].sale_type, run_source(sessions[s]),
                     run_before(sessions[s]),
                     new_qty(run_source(sessions[s]), run_before(sessions[s]),
                             sessions[s].row.QUANTITY, sessions[s].sale_type)))
    /\ message' = "processed"
    /\ sessions' = [sessions EXCEPT ![s].pc = "sold"]
    /\ UNCHANGED <<inventory, archive, sales, pending_delete_index, requested_row>>

\* the script stops between two writes: a write raises (to_excel on a file
\* that is open elsewhere), the server stops, or the session reruns
Interrupt(s) ==
    /\ sessions[s].pc \in {"saved inventory", "saved tables", "saved sales"}
    /\ sessions' = [sessions EXCEPT ![s].pc = "interrupted"]
    /\ UNCHANGED <<inventory, archive, sales, audit, pending_delete_index,
                   message, requested_row>>

\* ------------------------------------------------------------------ specifications
\* both pages, every handler
Next ==
    \/ \E b \in BarcodeInputs, q \in QuantityInputs :
          AddProduct(b, FrameFor(b), q) /\ Len(inventory') <= MaxRows
    \/ \E i \in 1..Len(inventory), b \in BarcodeInputs \ {<<>>}, q \in QuantityInputs :
          EditProduct(i, b, inventory[i].FRAMENUM, q)
    \/ \E i \in 1..Len(inventory) : RequestDelete(i) /\ UNCHANGED requested_row
    \/ ConfirmDelete
    \/ CancelDelete
    \/ \E b \in BarcodeInputs, q \in 1..MaxQty, t \in TransactionTypes :
          ProcessTransaction(b, q, t) /\ Len(sales') <= MaxLog

Spec == Init /\ [][Next]_vars

\* the stock of each product: added, its quantity edited, sold and returned
NextStock ==
    \/ \E b \in BarcodeInputs, q \in StockQuantityInputs :
          AddProduct(b, FrameFor(b), q) /\ Len(inventory') <= MaxRows
    \/ \E i \in 1..Len(inventory), q \in StockQuantityInputs :
          EditProduct(i, inventory[i].BARCODE, inventory[i].FRAMENUM, q)
    \/ \E b \in BarcodeInputs, q \in 1..MaxStockQty, t \in TransactionTypes :
          ProcessTransaction(b, q, t) /\ Len(sales') <= MaxStockLog

SpecStock == Init /\ [][NextStock]_vars

\* the manager page on its own, with every field of its forms typed freely
NextManager ==
    \/ \E b \in ManagerBarcodeInputs, f \in ManagerFrameInputs, q \in QuantityInputs :
          AddProduct(b, f, q) /\ Len(inventory') <= MaxRows
    \/ \E i \in 1..Len(inventory), b \in ManagerBarcodeInputs \ {<<>>},
          f \in ManagerFrameInputs \ {<<>>}, q \in QuantityInputs :
          EditProduct(i, b, f, q)
    \/ \E i \in 1..Len(inventory) : RequestDelete(i) /\ UNCHANGED requested_row
    \/ ConfirmDelete
    \/ CancelDelete

SpecManager == Init /\ [][NextManager]_vars

\* products added, sold out, added again and returned, with a sales log long
\* enough for two sales and a return
NextRestore ==
    \/ \E b \in BarcodeInputs, q \in QuantityInputs :
          AddProduct(b, FrameFor(b), q) /\ Len(inventory') <= MaxRows
    \/ \E b \in BarcodeInputs, q \in 1..MaxQty, t \in TransactionTypes :
          ProcessTransaction(b, q, t) /\ Len(sales') <= MaxRestoreLog

SpecRestore == Init /\ [][NextRestore]_vars

\* single units added, renamed, deleted, sold out and returned
NextItems ==
    \/ \E b \in BarcodeInputs :
          AddProduct(b, FrameFor(b), 1) /\ Len(inventory') <= MaxRows
    \/ \E i \in 1..Len(inventory), b \in BarcodeInputs \ {<<>>} :
          EditProduct(i, b, inventory[i].FRAMENUM, inventory[i].QUANTITY)
    \/ \E i \in 1..Len(inventory) : RequestDelete(i) /\ UNCHANGED requested_row
    \/ ConfirmDelete
    \/ CancelDelete
    \/ \E b \in BarcodeInputs, t \in TransactionTypes :
          ProcessTransaction(b, 1, t) /\ Len(sales') <= MaxStockLog

SpecItems == Init /\ [][NextItems]_vars

\* a delete requested, other operations run, then the delete confirmed or
\* cancelled; requested_row remembers the row that was selected
NextDelete ==
    \/ \E b \in BarcodeInputs :
          AddProduct(b, FrameFor(b), 1) /\ Len(inventory') <= MaxRows
    \/ \E i \in 1..Len(inventory) :
          RequestDelete(i) /\ requested_row' = load_inventory(inventory)[i]
    \/ ConfirmDelete
    \/ CancelDelete
    \/ \E b \in BarcodeInputs, t \in TransactionTypes :
          ProcessTransaction(b, 1, t) /\ Len(sales') <= MaxStockLog

SpecDelete == Init /\ [][NextDelete]_vars

\* two sessions adding products, their reruns interleaved at load and save
NextRace ==
    \/ \E s \in Sessions, b \in BarcodeInputs, f \in FrameInputs :
          SessionLoad(s, b, f, 1)
    \/ \E s \in Sessions : SessionSubmit(s) /\ Len(inventory') <= MaxRows

SpecRace == Init /\ [][NextRace]_vars

\* two sessions adding and selling, their script runs interleaved at load
\* and save
NextLost ==
    \/ \E s \in Sessions, b \in {<<"1">>, <<"2">>} :
          SessionLoad(s, b, FrameFor(b), 2)
    \/ \E s \in Sessions : SessionSubmit(s) /\ Len(inventory') <= MaxRows
    \/ \E s \in Sessions, t \in TransactionTypes : SellLoad(s, <<"1">>, 1, t)
    \/ \E s \in Sessions : SellSubmit(s) /\ Len(sales') <= MaxStockLog

SpecLost == Init /\ [][NextLost]_vars

\* rows added with frame numbers of the suppliers' pattern, and frame codes
\* generated from them
NextCodes ==
    \/ \E b \in {<<"1">>, <<"2">>}, f \in FrameCodeInputs :
          AddProduct(b, f, 1) /\ Len(inventory') <= MaxRows
    \/ \E supplier \in SupplierInputs : GenerateFramecode(1, supplier)

SpecCodes == Init /\ [][NextCodes]_vars

\* rows added with barcodes of the generator's range, and barcodes generated;
\* random.randint draws every value of the range with the same positive
\* probability at every turn, so a draw that can end the loop is not put off
\* for ever
NextDraw ==
    \/ \E b \in RangeBarcodes, q \in QuantityInputs :
          AddProduct(b, b, q) /\ Len(inventory') <= MaxRows
    \/ \E s \in Sessions : GenerateBarcode(s)
    \/ \E s \in Sessions, value \in 1..BarcodeRange : Draw(s, value)

SpecDraw ==
    Init /\ [][NextDraw]_vars /\ \A s \in Sessions : WF_vars(DrawUnused(s))

\* rows added, sold and counted: up to two scanned barcodes per upload
NextCount ==
    \/ \E b \in {<<"1">>, <<"2">>, <<"1", "2", "3", ".", "0">>} :
          AddProduct(b, FrameFor(b), 1) /\ Len(inventory') <= MaxRows
    \/ \E b \in {<<"1">>, <<"2">>} :
          ProcessTransaction(b, 1, "Sale") /\ Len(sales') <= MaxLog
    \/ \E page \in {"Stocktake", "Manager"}, scanned \in SUBSET ScanInputs :
          Cardinality(scanned) <= 2 /\ Reconcile(1, page, scanned)

SpecCount == Init /\ [][NextCount]_vars

\* barcodes of every shape typed into the add form
NextClean ==
    \/ \E b \in CleanInputs, f \in FrameInputs \ {<<>>} : SessionLoad(1, b, f, 1)
    \/ SessionSubmit(1) /\ Len(inventory') <= MaxRows

SpecClean == Init /\ [][NextClean]_vars

\* single units added, then sold and returned by one session whose four file
\* writes are steps of their own
NextWrites ==
    \/ \E b \in {<<"1">>, <<"2">>} :
          AddProduct(b, FrameFor(b), 1) /\ Len(inventory') <= MaxRows
    \/ \E t \in TransactionTypes :
          SellLoad(1, <<"1">>, 1, t) /\ Len(sales) < MaxStockLog
    \/ /\ WriteInventory(1)
       /\ Len(inventory') <= MaxRows
       /\ \A i \in 1..Len(inventory') : inventory'[i].QUANTITY <= MaxQty
    \/ WriteArchive(1) /\ Len(archive') <= MaxRows
    \/ WriteSales(1)
    \/ WriteAudit(1)
    \/ Interrupt(1)

SpecWrites == Init /\ [][NextWrites]_vars

\* ------------------------------------------------------------------ properties
\* the rows of Inventory and Archive taken together
AllRows == inventory \o archive

\* the active rows the sell page finds for a typed barcode
ActiveMatches(barcode) ==
    { i \in 1..Len(inventory) :
        sell_clean[inventory[i].BARCODE] = sell_clean[barcode] }

\* the active rows other than row i that collide with the typed codes
Collisions(i, barcode, framenum) ==
    { j \in 1..Len(inventory) :
        /\ j # i
        /\ \/ manager_clean[inventory[j].BARCODE] = manager_clean[barcode]
           \/ manager_clean[inventory[j].FRAMENUM] = manager_clean[framenum] }

\* the archive rows the sell page finds for a typed barcode
ArchiveMatches(barcode) ==
    { i \in 1..Len(archive) :
        sell_clean[archive[i].BARCODE] = sell_clean[barcode] }

\* the quantity of a typed barcode sold and not yet returned, by the sales log
NetSold(barcode) ==
    total_quantity(sales, sell_clean[barcode], "Sale")
        - total_quantity(sales, sell_clean[barcode], "Return")

AddMessages == { "required", "barcode exists", "framecode exists", "added" }
SellMessages ==
    { "not found", "none", "not enough stock", "cannot sell archived",
      "cannot return", "processed" }

\* C1: every canonical barcode identifies at most one row of Inventory and
\* Archive taken together, whatever sequence of Add, Edit, Delete, Sell and
\* Return has run.
C1_BarcodeIdentifiesOneRow ==
    \A i, j \in 1..Len(AllRows) :
        manager_clean[AllRows[i].BARCODE] = manager_clean[AllRows[j].BARCODE]
            => i = j

\* C2: no two active rows share a canonical barcode, and no two active rows
\* share a canonical frame code.
C2_ActiveCodesUnique ==
    \A i, j \in 1..Len(inventory) :
        \/ i = j
        \/ /\ manager_clean[inventory[i].BARCODE] # manager_clean[inventory[j].BARCODE]
           /\ manager_clean[inventory[i].FRAMENUM] # manager_clean[inventory[j].FRAMENUM]

\* C3: the quantity of every Inventory row and of every Archive row is never
\* negative: no sequence of Add, Edit, Sell and Return stores a negative
\* quantity.
C3_QuantitiesNonNegative ==
    /\ \A i \in 1..Len(inventory) : inventory[i].QUANTITY >= 0
    /\ \A i \in 1..Len(archive) : archive[i].QUANTITY >= 0

\* a sale has taken a product down to exactly zero and archived it
C3_SoldDownToZero ==
    /\ message = "processed"
    /\ sales # <<>>
    /\ sales[Len(sales)].Type = "Sale"
    /\ \E i \in 1..Len(archive) :
          /\ sell_clean[archive[i].BARCODE] = sales[Len(sales)].BARCODE
          /\ archive[i].QUANTITY = 0

\* C4: for every barcode the quantities of its Return records in the sales
\* log sum to no more than the quantities of its Sale records, and a Return
\* of more than the net quantity sold is rejected and changes nothing.
C4_ReturnsWithinSales ==
    [][/\ \A k \in 1..Len(sales') :
             total_quantity(sales', sales'[k].BARCODE, "Return")
                 <= total_quantity(sales', sales'[k].BARCODE, "Sale")
       /\ message' \in SellMessages =>
             \A b \in BarcodeInputs, q \in 1..MaxStockQty :
                 ( /\ message' # "not found"
                   /\ message' # "none"
                   /\ q > total_quantity(sales, sell_clean[b], "Sale")
                          - total_quantity(sales, sell_clean[b], "Return")
                   /\ ProcessTransaction(b, q, "Return") )
                 => /\ message' = "cannot return"
                    /\ UNCHANGED <<inventory, archive, sales, audit>>]_vars

\* 3 were sold, 2 came back, and the return of 2 more has been refused
C4_SecondReturnRefused ==
    /\ message = "cannot return"
    /\ sales = << [BARCODE |-> <<"1">>, Quantity |-> 3, Type |-> "Sale"],
                  [BARCODE |-> <<"1">>, Quantity |-> 2, Type |-> "Return"] >>
    /\ \E i \in 1..Len(inventory) :
          inventory[i].BARCODE = <<"1">> /\ inventory[i].QUANTITY = 2

\* C5: a successful Sell or Return appends exactly one record to the sales
\* log, carrying the transaction's type, barcode and quantity, and exactly
\* one record to the audit log; a rejected one (a step of the sell page that
\* reports anything but "processed") appends to neither.
C5_TransactionLoggedOnce ==
    [][message' \in SellMessages =>
          IF message' = "processed"
          THEN \A b \in BarcodeInputs, q \in 1..MaxStockQty, t \in TransactionTypes :
                  ProcessTransaction(b, q, t) =>
                      /\ sales' = Append(sales, [BARCODE |-> sell_clean[b],
                                                 Quantity |-> q, Type |-> t])
                      /\ Len(audit') = Len(audit) + 1
                      /\ SubSeq(audit', 1, Len(audit)) = audit
                      /\ audit'[Len(audit')].BARCODE = sell_clean[b]
                      /\ audit'[Len(audit')].Action = t
                      /\ audit'[Len(audit')].Quantity = q
          ELSE /\ sales' = sales
               /\ audit' = audit]_vars

\* a sale and then a return have gone through, each logged in both logs
C5_SaleAndReturnLogged ==
    /\ message = "processed"
    /\ Len(sales) = 2
    /\ Len(audit) = 2
    /\ sales[1].Type = "Sale"
    /\ sales[2].Type = "Return"
    /\ audit[2].Action = "Return"

\* C6: every successful Add, Edit and Delete appends exactly one record to
\* the audit log.
C6_ManagerChangesAudited ==
    [][message' \in { "added", "updated", "deleted" }
          => Len(audit') = Len(audit) + 1]_vars

C8_EditRejectsCollision ==
    [][message' = "updated" =>
          \A i \in 1..Len(inventory), b \in ManagerBarcodeInputs \ {<<>>},
             f \in ManagerFrameInputs \ {<<>>}, q \in QuantityInputs :
              EditProduct(i, b, f, q) => Collisions(i, b, f) = {}]_vars

\* C9: a sale of exactly the stock of an item moves the item from Inventory
\* to Archive; a sale of less leaves the row in Inventory with its quantity
\* decreased by exactly the amount sold, and Archive unchanged.
C9_SaleMovesOrDecrements ==
    [][message' = "processed" =>
          \A b \in BarcodeInputs, q \in 1..MaxQty :
              ProcessTransaction(b, q, "Sale") =>
                  IF q = inventory[CHOOSE i \in ActiveMatches(b) :
                                      \A j \in ActiveMatches(b) : i <= j].QUANTITY
                  THEN /\ \A i \in 1..Len(inventory') :
                             sell_clean[inventory'[i].BARCODE] # sell_clean[b]
                       /\ \E i \in 1..Len(archive') :
                             sell_clean[archive'[i].BARCODE] = sell_clean[b]
                  ELSE /\ archive' = archive
                       /\ inventory' =
                              [i \in 1..Len(inventory) |->
                                  IF i \in ActiveMatches(b)
                                  THEN [inventory[i] EXCEPT !.QUANTITY = @ - q]
                                  ELSE inventory[i]]]_vars

\* C10: a sale of an active item for more than its quantity fails with
\* "not enough stock" and leaves the item's quantity, and both tables,
\* unchanged.
C10_OversellRejected ==
    [][message' \in SellMessages =>
          \A b \in BarcodeInputs, q \in 1..MaxStockQty :
              ( /\ ActiveMatches(b) # {}
                /\ \A i \in ActiveMatches(b) : q > inventory[i].QUANTITY
                /\ ProcessTransaction(b, q, "Sale") )
              => /\ message' = "not enough stock"
                 /\ UNCHANGED <<inventory, archive, sales, audit>>]_vars

\* a sale of one unit of an active product with none in stock was refused
C10_OversellRefused ==
    /\ message = "not enough stock"
    /\ \E i \in 1..Len(inventory) : inventory[i].QUANTITY = 0

\* C11: a rejected Sell or Return (barcode in neither table, more than the
\* stock of an active item, a sale of an archived item, a return of more than
\* the net quantity sold) leaves Inventory, Archive, the sales log and the
\* audit log unchanged: a step of the sell page that goes through is none of
\* these four, and one that does not changes nothing.
C11_RejectionChangesNothing ==
    [][message' \in SellMessages =>
          IF message' = "processed"
          THEN \A b \in BarcodeInputs, q \in 1..MaxStockQty, t \in TransactionTypes :
                  ProcessTransaction(b, q, t) =>
                      /\ ActiveMatches(b) # {} \/ ArchiveMatches(b) # {}
                      /\ t = "Sale" =>
                            /\ ActiveMatches(b) # {}
                            /\ \E i \in ActiveMatches(b) : q <= inventory[i].QUANTITY
                      /\ t = "Return" => q <= NetSold(b)
          ELSE UNCHANGED <<inventory, archive, sales, audit>>]_vars

\* an unknown barcode was refused while all the tables held rows
C11_UnknownBarcodeRefused ==
    /\ message = "not found"
    /\ inventory # <<>>
    /\ archive # <<>>
    /\ sales # <<>>

\* C12: a Sell of a barcode whose only match is in the Archive is refused as
\* "cannot sell archived" and changes nothing.
C12_ArchivedNeverSold ==
    [][message' \in SellMessages =>
          IF message' = "cannot sell archived"
          THEN UNCHANGED <<inventory, archive, sales, audit>>
          ELSE \A b \in BarcodeInputs, q \in 1..MaxStockQty :
                  (ActiveMatches(b) = {} /\ ArchiveMatches(b) # {})
                      => ~ProcessTransaction(b, q, "Sale")]_vars

\* the sale of a product that is only in the archive was refused
C12_ArchivedSaleRefused ==
    /\ message = "cannot sell archived"
    /\ \E i \in 1..Len(archive) :
          \A j \in 1..Len(inventory) :
              sell_clean[inventory[j].BARCODE] # sell_clean[archive[i].BARCODE]

\* C13: a successful Return of a barcode that is only in the Archive moves
\* its row back to Inventory with the returned amount as its quantity and
\* removes it from the Archive: afterwards the barcode has exactly one active
\* row and no archive row.
C13_ReturnRestoresOneRow ==
    [][message' = "processed" =>
          \A b \in BarcodeInputs, q \in 1..MaxQty :
              ( /\ ActiveMatches(b) = {}
                /\ ArchiveMatches(b) # {}
                /\ ProcessTransaction(b, q, "Return") )
              => /\ Cardinality({ i \in 1..Len(inventory') :
                        sell_clean[inventory'[i].BARCODE] = sell_clean[b] }) = 1
                 /\ \A i \in 1..Len(inventory') :
                        sell_clean[inventory'[i].BARCODE] = sell_clean[b]
                            => inventory'[i].QUANTITY = q
                 /\ \A i \in 1..Len(archive') :
                        sell_clean[archive'[i].BARCODE] # sell_clean[b]]_vars

\* C14: a successful Return of a barcode that has a row in the Archive and a
\* row in Inventory adds the returned amount to the active row and removes
\* the barcode's row from the Archive.
C14_ReturnMergesAndClearsArchive ==
    [][message' = "processed" =>
          \A b \in BarcodeInputs, q \in 1..MaxStockQty :
              ( /\ ActiveMatches(b) # {}
                /\ ArchiveMatches(b) # {}
                /\ ProcessTransaction(b, q, "Return") )
              => /\ Len(inventory') = Len(inventory)
                 /\ \A i \in ActiveMatches(b) :
                        inventory'[i].QUANTITY = inventory[i].QUANTITY + q
                 /\ \A i \in 1..Len(archive') :
                        sell_clean[archive'[i].BARCODE] # sell_clean[b]]_vars

IsPrefix(old_log, new_log) ==
    /\ Len(old_log) <= Len(new_log)
    /\ \A i \in 1..Len(old_log) : new_log[i] = old_log[i]

\* C16: the sales log and the audit log are append-only: in every step of
\* every operation the log before is a prefix of the log after, so no
\* record is modified, reordered or removed.
C16_LogsAppendOnly ==
    [][IsPrefix(sales, sales') /\ IsPrefix(audit, audit')]_vars

\* two transactions are on record, the earlier one still first
C16_TwoRecordsKept ==
    /\ Len(sales) = 2
    /\ Len(audit) = 2
    /\ sales[1].Type = "Sale"
    /\ sales[2].Type = "Return"
    /\ sales[1].Quantity # sales[2].Quantity

\* C17: in every state every row of the active inventory has a quantity
\* above zero and every row of the archive has quantity zero.
C17_ArchivedExactlyWhenZero ==
    /\ \A i \in 1..Len(inventory) : inventory[i].QUANTITY > 0
    /\ \A i \in 1..Len(archive) : archive[i].QUANTITY = 0

\* the barcodes present in Inventory and Archive taken together
Barcodes(df, archive_df) ==
    { df[i].BARCODE : i \in 1..Len(df) } \cup
    { archive_df[i].BARCODE : i \in 1..Len(archive_df) }

\* C18 (as stated): a Sell or Return, successful or rejected, leaves the set
\* of barcodes of Inventory and Archive as it was, and only a Delete removes a
\* barcode from that set.
C18_OnlyDeleteRemovesBarcode ==
    [][/\ message' \in SellMessages =>
             Barcodes(inventory', archive') = Barcodes(inventory, archive)
       /\ \/ Barcodes(inventory, archive) \subseteq Barcodes(inventory', archive')
          \/ message' = "deleted"]_vars

\* C18 (amended): a Sell or Return, successful or rejected, leaves the set of
\* barcodes of Inventory and Archive as it was; a barcode leaves that set only
\* by a Delete or by an Edit that changes the barcode of its row, and only a
\* Delete makes the rows of the two tables fewer.
C18_SellKeepsBarcodes ==
    [][/\ message' \in SellMessages =>
             Barcodes(inventory', archive') = Barcodes(inventory, archive)
       /\ \/ Barcodes(inventory, archive) \subseteq Barcodes(inventory', archive')
          \/ message' = "deleted"
          \/ message' = "updated" /\ Len(inventory') = Len(inventory)
       /\ \/ Len(inventory') + Len(archive') >= Len(inventory) + Len(archive)
          \/ message' = "deleted"]_vars

\* a sold-out product was returned and is active again beside another row
C18_ArchivedCameBack ==
    /\ message = "processed"
    /\ Len(sales) = 2
    /\ sales[2].Type = "Return"
    /\ archive = <<>>
    /\ Len(inventory) = 2
    /\ audit[2].Details = "Archive"

\* C19: a confirmed delete removes exactly the row that was selected when
\* the delete was requested, whatever ran between request and confirmation,
\* and leaves every other row as it was; a cancelled delete changes nothing.
C19_DeleteRemovesRequestedRow ==
    [][/\ message' = "deleted" =>
             /\ pending_delete_index \in 1..Len(inventory)
             /\ inventory[pending_delete_index].BARCODE = requested_row.BARCODE
             /\ inventory[pending_delete_index].FRAMENUM = requested_row.FRAMENUM
             /\ Len(inventory') = Len(inventory) - 1
       /\ (pending_delete_index # None /\ pending_delete_index' = None
              /\ message' # "deleted") =>
             UNCHANGED <<inventory, archive, sales, audit>>]_vars

\* no two rows of the table share a canonical barcode or a canonical frame code
NoDuplicateRows(df) ==
    \A i, j \in 1..Len(df) :
        i # j => /\ manager_clean[df[i].BARCODE] # manager_clean[df[j].BARCODE]
                 /\ manager_clean[df[i].FRAMENUM] # manager_clean[df[j].FRAMENUM]

\* the two rows carry the same canonical barcode or frame code
SameCode(r1, r2) ==
    \/ manager_clean[r1.BARCODE] = manager_clean[r2.BARCODE]
    \/ manager_clean[r1.FRAMENUM] = manager_clean[r2.FRAMENUM]

\* C20 (as stated): when two sessions add the same barcode or frame code from
\* the same snapshot of the inventory, the uniqueness check fails the later
\* Add, and no interleaving leaves two saved rows with the same barcode or
\* frame code.
C20_LaterAddFails ==
    /\ NoDuplicateRows(inventory)
    /\ \A s, t \in Sessions :
          (/\ s # t
           /\ sessions[s].pc = "added"
           /\ sessions[t].pc = "added"
           /\ sessions[s].df = sessions[t].df) =>
              ~SameCode(sessions[s].row, sessions[t].row)

\* C20 (amended): no interleaving leaves two saved rows with the same barcode
\* or frame code. An Add is refused exactly when a required field is empty or
\* its code is in the copy of the inventory its own rerun read; otherwise it
\* succeeds and the file becomes that copy plus the new row, whatever another
\* session saved in between.
C20_NoDuplicateRowsSaved ==
    [][/\ NoDuplicateRows(inventory')
       /\ \A s \in Sessions :
             (sessions[s].pc = "loaded" /\ sessions'[s].pc # "loaded") =>
                 LET df == sessions[s].df
                     row == sessions[s].row
                 IN  IF \/ MissingRequired(row.BARCODE, row.FRAMENUM)
                        \/ \E i \in 1..Len(df) : SameCode(df[i], row)
                     THEN /\ sessions'[s].pc = "refused"
                          /\ UNCHANGED inventory
                     ELSE /\ sessions'[s].pc = "added"
                          /\ Len(inventory') = Len(df) + 1
                          /\ \A i \in 1..Len(df) : inventory'[i] = df[i]
                          /\ SameCode(inventory'[Len(inventory')], row)]_vars

\* the second session read the file after the first one saved, and was refused
C20_LaterAddRefused ==
    /\ sessions[1].pc = "added"
    /\ sessions[2].pc = "refused"
    /\ sessions[2].df # sessions[1].df
    /\ message = "barcode exists"
    /\ manager_clean[sessions[1].row.BARCODE] = manager_clean[sessions[2].row.BARCODE]
    /\ sessions[1].row.BARCODE # sessions[2].row.BARCODE

\* C21: with two sessions on the same files and no locking, a save writes
\* the saving session's own copy plus its own change and reports success, so
\* when both sessions load, both change and both save, the file holds the
\* later writer's change only: the earlier added row, quantity change or
\* sales and audit record is gone, and neither session is told.
C21_LastWriteWins ==
    [][\A s \in Sessions :
          /\ (sessions[s].pc = "selling" /\ sessions'[s].pc = "sold") =>
                /\ message' = "processed"
                /\ Len(sales') = Len(sessions[s].sales_df) + 1
                /\ IsPrefix(sessions[s].sales_df, sales')
                /\ Len(audit') = Len(sessions[s].audit_df) + 1
                /\ IsPrefix(sessions[s].audit_df, audit')
                /\ Len(inventory') + Len(archive') =
                       Len(sessions[s].df) + Len(sessions[s].archive_df)
          /\ (sessions[s].pc = "loaded" /\ sessions'[s].pc = "added") =>
                /\ message' = "added"
                /\ Len(inventory') = Len(sessions[s].df) + 1
                /\ IsPrefix(sessions[s].df, inventory')]_vars

\* both sessions sold one unit from the same copies and were both told so;
\* the files hold one sale: one record, one unit less
C21_EarlierSaleLost ==
    /\ sessions[1].pc = "sold"
    /\ sessions[2].pc = "sold"
    /\ message = "processed"
    /\ sessions[1].df = sessions[2].df
    /\ sessions[1].sales_df = sessions[2].sales_df
    /\ sessions[1].sale_type = "Sale"
    /\ sessions[2].sale_type = "Sale"
    /\ Len(sales) = Len(sessions[1].sales_df) + 1
    /\ Len(audit) = Len(sessions[1].audit_df) + 1
    /\ Len(inventory) = 1
    /\ Len(sessions[1].df) = 1
    /\ inventory[1].QUANTITY = sessions[1].df[1].QUANTITY - 1

\* the existing frame codes that are the prefix followed by exactly six digits
SixDigitCodes(prefix, df) ==
    { i \in 1..Len(df) :
        /\ StartsWith(df[i].FRAMENUM, prefix)
        /\ Len(df[i].FRAMENUM) = Len(prefix) + FRAMECODE_DIGITS
        /\ AllDigits(SubSeq(df[i].FRAMENUM, Len(prefix) + 1, Len(df[i].FRAMENUM))) }

\* the number after the prefix of such a code
SuffixNumber(prefix, code) ==
    DigitsValue(SubSeq(code, Len(prefix) + 1, Len(code)))

\* C22: generateFrameCode returns the first three letters of the supplier
\* name in upper case followed by n padded with zeros to six digits, where n
\* is 1 when no existing code with that prefix has a six-digit numeric
\* suffix and the largest such suffix plus 1 otherwise.
C22_FrameCodeIsNextSuffix ==
    \A s \in Sessions :
        sessions[s].pc = "framecode" =>
            LET prefix == framecode_prefix(sessions[s].supplier)
                df == sessions[s].df
                known == SixDigitCodes(prefix, df)
                n == IF known = {} THEN 1
                     ELSE 1 + SuffixNumber(prefix,
                                  df[CHOOSE i \in known : \A j \in known :
                                        SuffixNumber(prefix, df[j].FRAMENUM)
                                            <= SuffixNumber(prefix, df[i].FRAMENUM)].FRAMENUM)
            IN  sessions[s].row.FRAMENUM = prefix \o zero_padded(IntToStr(n))

\* C23: the frame code generateFrameCode returns equals none of the existing
\* frame codes, also when these hold a suffix of 999999, of more than six
\* digits, or one that is not numeric.
C23_FrameCodeIsNew ==
    \A s \in Sessions :
        sessions[s].pc = "framecode" =>
            \A i \in 1..Len(sessions[s].df) :
                sessions[s].df[i].FRAMENUM # sessions[s].row.FRAMENUM

\* some barcode of the range is in no row of the copy the generator looks at
SomeUnused(df) ==
    \E value \in 1..BarcodeRange : ~barcode_taken(df, manager_clean[IntToStr(value)])

\* C24: generateBarcode draws from the fixed range until the draw is in no
\* existing row: with a value of the range unused the call eventually
\* returns, and what it returns is canonical and not among the existing
\* barcodes; with every value used it never returns.
C24_DrawsUntilUnused ==
    /\ \A s \in Sessions :
          (sessions[s].pc = "drawing" /\ SomeUnused(sessions[s].df))
              ~> (sessions[s].pc = "barcode")
    /\ [][\A s \in Sessions :
             /\ (sessions[s].pc = "drawing" /\ ~SomeUnused(sessions[s].df)) =>
                   sessions'[s].pc = "drawing"
             /\ sessions'[s].pc = "barcode" =>
                   /\ ~barcode_taken(sessions'[s].df, sessions'[s].row.BARCODE)
                   /\ \A i \in 1..Len(sessions'[s].df) :
                         sessions'[s].df[i].BARCODE # sessions'[s].row.BARCODE
                   /\ manager_clean[sessions'[s].row.BARCODE] =
                         sessions'[s].row.BARCODE]_vars

\* the generator is turning over a full range: every draw is taken
C24_RangeExhausted ==
    /\ sessions[1].pc = "drawing"
    /\ sessions[1].draws = 1
    /\ ~SomeUnused(sessions[1].df)

\* C25: reconcile returns matched = recorded and scanned, missing = recorded
\* without scanned, unexpected = scanned without recorded, taken over the
\* canonical barcodes; the three sets are pairwise disjoint, their union is
\* recorded with scanned, and no table or log changes.
C25_ReconcileSplitsTheUnion ==
    [][sessions'[1].pc = "counted" /\ sessions'[1] # sessions[1] =>
          LET clean == page_clean(sessions'[1].page)
              recorded == { clean[sessions'[1].df[i].BARCODE] :
                              i \in 1..Len(sessions'[1].df) }
              scanned == { clean[v] : v \in sessions'[1].scanned }
              result == sessions'[1].result
          IN  /\ result.matched = recorded \cap scanned
              /\ result.missing = recorded \ scanned
              /\ result.unexpected = scanned \ recorded
              /\ result.matched \cap result.missing = {}
              /\ result.matched \cap result.unexpected = {}
              /\ result.missing \cap result.unexpected = {}
              /\ result.matched \cup result.missing \cup result.unexpected =
                     recorded \cup scanned
              /\ UNCHANGED <<inventory, archive, sales, audit>>]_vars

\* a count with one barcode matched, one missing and one unexpected
C25_AllThreeKinds ==
    /\ sessions[1].pc = "counted"
    /\ sessions[1].result.matched = { <<"2">> }
    /\ sessions[1].result.missing = { <<"1">> }
    /\ sessions[1].result.unexpected = { <<"1", "2", "3">> }

\* C26: the stock count canonicalizes barcodes with the function the ledger
\* uses: for every scanned value the Stocktake page's clean_barcode gives the
\* same text as the manager's (add, edit) and as the sell page's (sell,
\* return).
C26_OneCanonicalForm ==
    sessions[1].pc = "counted" =>
        \A v \in sessions[1].scanned :
            /\ stocktake_clean[v] = manager_clean[v]
            /\ stocktake_clean[v] = sell_clean[v]

\* C27: normalization is idempotent: cleaning a barcode a second time gives
\* what cleaning it once gave, for values with blanks around them, zero-width
\* or non-breaking spaces and decimal suffixes, so that a table loaded, saved
\* and loaded again shows the same barcodes.
C27_CleanIsIdempotent ==
    \A s \in Sessions :
        sessions[s].pc \in {"loaded", "added", "refused"} =>
            clean_barcode(clean_barcode(sessions[s].row.BARCODE)) =
                clean_barcode(sessions[s].row.BARCODE)

\* what C28 says the canonical form of a typed value is
CanonicalAsStated(x) ==
    IF IsFloat(x)
    THEN IF IsInteger(x) THEN { IntToStr(FloatIntPart(x)) }
         ELSE IF HalfCompare(FloatFracDigits(x)) = 1
         THEN { IntToStr(FloatIntPart(x) + 1) }
         ELSE IF HalfCompare(FloatFracDigits(x)) = -1
         THEN { IntToStr(FloatIntPart(x)) }
         ELSE { IntToStr(FloatIntPart(x)), IntToStr(FloatIntPart(x) + 1) }
    ELSE { Strip(x) }

\* C28: barcode canonicalization, on the manager and on the sell page, maps
\* "123" to "123", "123.0" to "123" and "123.5" to "124": integral numbers
\* lose their decimal suffix, other numbers are rounded to the nearest
\* integer, and text that is no number comes back trimmed and otherwise
\* unchanged.
C28_CanonicalFormAsStated ==
    \A s \in Sessions :
        sessions[s].pc \in {"loaded", "added", "refused"} =>
            LET x == sessions[s].row.BARCODE
            IN  /\ manager_clean[x] \in CanonicalAsStated(x)
                /\ sell_clean[x] \in CanonicalAsStated(x)
                /\ x = <<"1", "2", "3", ".", "5">> =>
                      /\ manager_clean[x] = <<"1", "2", "4">>
                      /\ sell_clean[x] = <<"1", "2", "4">>

\* total quantity of the active rows of a barcode, 0 when it has none
RECURSIVE OnHand(_, _)
OnHand(df, barcode_input) ==
    IF df = <<>> THEN 0
    ELSE (IF sell_clean[Head(df).BARCODE] = barcode_input
          THEN Head(df).QUANTITY ELSE 0)
         + OnHand(Tail(df), barcode_input)

\* C29: stock conservation: a Sell or Return, successful or rejected, leaves
\* for every barcode the sum of the quantity on hand and the net quantity
\* sold (sales minus returns in the sales log) as it was.
C29_StockConserved ==
    [][message' \in SellMessages =>
          \A b \in {sell_clean[v] : v \in BarcodeInputs} :
              OnHand(inventory', b) + net_sold(sales', b) =
                  OnHand(inventory, b) + net_sold(sales, b)]_vars

\* the barcode has rows in exactly one of the two tables
InExactlyOne(df, archive_df, barcode_input) ==
    (matching_rows(df, barcode_input) # <<>>)
        # (matching_rows(archive_df, barcode_input) # <<>>)

\* C30: the move of an item between Inventory and Archive is atomic in the
\* files: in every state a Sale reaching zero or a Return restoring an
\* archived item passes through, also between its file writes, the barcode
\* is in exactly one of the Inventory and Archive files, and the inventory is
\* never saved changed without the sales record and the audit record.
C30_MoveIsAtomic ==
    \A s \in Sessions :
        (/\ sessions[s].pc \in {"saved inventory", "saved tables", "saved sales",
                                "sold", "interrupted"}
         /\ InExactlyOne(sessions[s].df, sessions[s].archive_df,
                         sessions[s].row.BARCODE)) =>
            /\ InExactlyOne(inventory, archive, sessions[s].row.BARCODE)
            /\ inventory # sessions[s].df =>
                  /\ Len(sales) = Len(sessions[s].sales_df) + 1
                  /\ Len(audit) = Len(sessions[s].audit_df) + 1
====
